---- MODULE Spec2Model ----
(***************************************************************************)
(* Form-Automation: the field discovery, response collection, filling and  *)
(* submission/recovery engine (FormProcessingService), together with the   *)
(* two top-level drivers that run it (FormAutomationController.execute     *)
(* under CLIRunner.run, and FormAutomationController.run).                 *)
(*                                                                         *)
(* Strings are sequences of one-character strings, so that the string      *)
(* functions of the source (toLowerCase, trim, the regular expressions of  *)
(* getFieldName and generateFieldNameFromLabel) are computed, not assumed. *)
(***************************************************************************)
EXTENDS Integers, Sequences, FiniteSets, TLC

(***************************************************************************)
(* Bounds of the model.                                                    *)
(***************************************************************************)
\* largest number of controls of the rendered form
MaxControls == 2

\* controls in a document of a detection pass, and elements the error
\* selectors return in it
MaxDetect == 2

\* the longest answer given to sanitizeInput on its own
MaxInput == 3

(***************************************************************************)
(* Characters and strings.                                                 *)
(***************************************************************************)
LowerLetters ==
    {"a", "b", "c", "d", "e", "f", "g", "h", "i", "j", "k", "l", "m",
     "n", "o", "p", "q", "r", "s", "t", "u", "v", "w", "x", "y", "z"}

UpperLetters ==
    {"A", "B", "C", "D", "E", "F", "G", "H", "I", "J", "K", "L", "M",
     "N", "O", "P", "Q", "R", "S", "T", "U", "V", "W", "X", "Y", "Z"}

Digits == {"0", "1", "2", "3", "4", "5", "6", "7", "8", "9"}

\* the characters matched by \s
IsSpace(c) == c \in {" ", "\t", "\n", "\r"}

\* String.prototype.toLowerCase on one character
LowerChar(c) ==
    CASE c = "A" -> "a" [] c = "B" -> "b" [] c = "C" -> "c" [] c = "D" -> "d"
      [] c = "E" -> "e" [] c = "F" -> "f" [] c = "G" -> "g" [] c = "H" -> "h"
      [] c = "I" -> "i" [] c = "J" -> "j" [] c = "K" -> "k" [] c = "L" -> "l"
      [] c = "M" -> "m" [] c = "N" -> "n" [] c = "O" -> "o" [] c = "P" -> "p"
      [] c = "Q" -> "q" [] c = "R" -> "r" [] c = "S" -> "s" [] c = "T" -> "t"
      [] c = "U" -> "u" [] c = "V" -> "v" [] c = "W" -> "w" [] c = "X" -> "x"
      [] c = "Y" -> "y" [] c = "Z" -> "z" [] OTHER -> c

ToLowerCase(s) == [i \in 1..Len(s) |-> LowerChar(s[i])]

RECURSIVE TrimStart(_)
TrimStart(s) ==
    IF s # <<>> /\ IsSpace(Head(s)) THEN TrimStart(Tail(s)) ELSE s

RECURSIVE TrimEnd(_)
TrimEnd(s) ==
    IF s # <<>> /\ IsSpace(s[Len(s)])
    THEN TrimEnd(SubSeq(s, 1, Len(s) - 1))
    ELSE s

\* String.prototype.trim
Trim(s) == TrimEnd(TrimStart(s))

\* String.prototype.includes
Includes(s, sub) ==
    \E i \in 1..(Len(s) - Len(sub) + 1) : SubSeq(s, i, i + Len(sub) - 1) = sub

\* s.replace(/\s+/g, "_")
RECURSIVE SpacesToUnderscore(_)
SpacesToUnderscore(s) ==
    IF s = <<>> THEN <<>>
    ELSE IF IsSpace(Head(s))
         THEN <<"_">> \o SpacesToUnderscore(TrimStart(s))
         ELSE <<Head(s)>> \o SpacesToUnderscore(Tail(s))

\* s.replace(/[^a-zA-Z0-9_]/g, "")
KeepWordChars(s) ==
    SelectSeq(s, LAMBDA c : c \in LowerLetters \cup UpperLetters \cup Digits \cup {"_"})

\* s.replace(/_{2,}/g, "_")
RECURSIVE CollapseUnderscores(_)
CollapseUnderscores(s) ==
    IF Len(s) < 2 THEN s
    ELSE IF s[1] = "_" /\ s[2] = "_"
         THEN CollapseUnderscores(Tail(s))
         ELSE <<Head(s)>> \o CollapseUnderscores(Tail(s))

\* s.replace(/^_|_$/g, "")
StripEdgeUnderscores(s) ==
    LET a == IF s # <<>> /\ Head(s) = "_" THEN Tail(s) ELSE s
    IN  IF a # <<>> /\ a[Len(a)] = "_" THEN SubSeq(a, 1, Len(a) - 1) ELSE a

\* FormUtils.generateFieldNameFromLabel
generateFieldNameFromLabel(label) ==
    StripEdgeUnderscores(
      CollapseUnderscores(
        KeepWordChars(
          SpacesToUnderscore(ToLowerCase(label)))))

(***************************************************************************)
(* The rendered document: a sequence of controls.  A control carries the   *)
(* attributes the engine reads: name, id, data-testid, data-test,          *)
(* aria-label, the text of its label[for=id] element (forLabel), the text  *)
(* of a label element in its parent (wrapLabel), placeholder, required.    *)
(* The empty string stands for an absent attribute, as in the source's     *)
(* truthiness tests.                                                       *)
(***************************************************************************)
E == <<>>

MANTINE == <<"m", "a", "n", "t", "i", "n", "e", "-">>

Control(name, id, testid, aria, forLabel, wrapLabel, placeholder, required) ==
    [name |-> name, id |-> id, testid |-> testid, datatest |-> E,
     aria |-> aria, forLabel |-> forLabel, wrapLabel |-> wrapLabel,
     placeholder |-> placeholder, required |-> required, dropdown |-> FALSE]

\* the controls a form of the model is built from
Catalog ==
    << \* <input name="em" id="em1" required> with <label for="em1">Em</label>
       Control(<<"e", "m">>, <<"e", "m", "1">>, E, E, <<"E", "m">>, E, E, TRUE),
       \* <input data-testid="t1" aria-label="Ph">
       Control(E, E, <<"t", "1">>, <<"P", "h">>, E, E, E, FALSE),
       \* <label>A b <input></label>
       Control(E, E, E, E, E, <<"A", " ", "b">>, E, FALSE),
       \* <label>a  b* <input class="x"></label>
       Control(E, E, E, E, E, <<"a", " ", " ", "b", "*">>, E, FALSE),
       \* <div><label>Co</label><input id="mantine-1"></div>
       Control(E, MANTINE \o <<"1">>, E, E, E, <<"C", "o">>, E, FALSE),
       \* <input> without any label source
       Control(E, E, E, E, E, E, E, FALSE) >>

\* decimal rendering of a small position (template literal `${k}`)
NumStr(k) ==
    CASE k = 1 -> <<"1">> [] k = 2 -> <<"2">> [] k = 3 -> <<"3">>
      [] k = 4 -> <<"4">> [] k = 5 -> <<"5">> [] k = 6 -> <<"6">>
      [] k = 7 -> <<"7">> [] k = 8 -> <<"8">> [] OTHER -> <<"9">>

(***************************************************************************)
(* Selectors.  [kind, val] stands for the selector string:                 *)
(*   name     [name="val"]          hash      #val                         *)
(*   idattr   [id="val"]            testid    [data-testid="val"]          *)
(*   datatest [data-test="val"]     datafield [data-field="val"]           *)
(*   aria     [aria-label="val"]    nth       input:nth-of-type(val)       *)
(***************************************************************************)
Sel(kind, val) == [kind |-> kind, val |-> val]

\* does control number i of document d match the selector (page.$ semantics);
\* an empty id selector ("#") is a syntax error, which the callers catch
Matches(d, i, sel) ==
    LET c == d[i] IN
    CASE sel.kind = "name"      -> c.name = sel.val
      [] sel.kind = "hash"      -> sel.val # E /\ c.id = sel.val
      [] sel.kind = "idattr"    -> c.id = sel.val
      [] sel.kind = "testid"    -> c.testid = sel.val
      [] sel.kind = "datatest"  -> c.datatest = sel.val
      [] sel.kind = "datafield" -> FALSE
      [] sel.kind = "aria"      -> c.aria = sel.val
      [] sel.kind = "nth"       -> NumStr(i) = sel.val
      [] OTHER                  -> FALSE

\* page.$(selector): the first matching control in document order, 0 if none
Query(d, sel) ==
    IF \E i \in 1..Len(d) : Matches(d, i, sel)
    THEN CHOOSE i \in 1..Len(d) :
            Matches(d, i, sel) /\ \A j \in 1..(i - 1) : ~Matches(d, j, sel)
    ELSE 0

\* label.replace(/[-_]/g, " ")
DashToSpace(s) == [i \in 1..Len(s) |-> IF s[i] \in {"-", "_"} THEN " " ELSE s[i]]

\* extractFieldData: the label inferred for a control at discovery
DiscoveryLabel(c) ==
    LET l1 == IF c.aria # E THEN c.aria
              ELSE IF c.id # E THEN Trim(c.forLabel)
              ELSE Trim(c.wrapLabel)
        l2 == IF l1 = E /\ c.placeholder # E THEN c.placeholder ELSE l1
    IN  IF l2 = E /\ c.name # E THEN DashToSpace(c.name) ELSE l2

\* extractFieldData: the selectors built for a control, in order of preference
DiscoverySelectors(c) ==
    (IF c.name # E THEN <<Sel("name", c.name)>> ELSE <<>>)
    \o (IF c.id # E /\ ~Includes(c.id, MANTINE) THEN <<Sel("hash", c.id)>> ELSE <<>>)
    \o (IF c.testid # E THEN <<Sel("testid", c.testid)>> ELSE <<>>)
    \o (IF c.datatest # E THEN <<Sel("datatest", c.datatest)>> ELSE <<>>)
    \o (IF c.aria # E THEN <<Sel("aria", c.aria)>> ELSE <<>>)

\* extractFieldData + FormFieldEntity.toObject: the field of control i as a
\* one-element sequence, or the empty sequence when no label can be inferred
\* (the source returns null and the control is not emitted)
extractFieldData(d, i) ==
    LET c     == d[i]
        label == DiscoveryLabel(c)
        sels  == DiscoverySelectors(c)
    IN  IF label = E THEN <<>>
        ELSE <<[label    |-> label,
                selector |-> IF sels # <<>> THEN sels[1] ELSE Sel("nth", NumStr(i)),
                type     |-> "input",
                required |-> c.required \/ Includes(label, <<"*">>)]>>

\* PuppeteerFormRepository.extractFormFields: the fields in document order
RECURSIVE extractFormFieldsFrom(_, _)
extractFormFieldsFrom(d, i) ==
    IF i > Len(d) THEN <<>>
    ELSE extractFieldData(d, i) \o extractFormFieldsFrom(d, i + 1)

extractFormFields(d) == extractFormFieldsFrom(d, 1)

\* the prefix of s matched by [^,\s\[.]+
RECURSIVE IdToken(_)
IdToken(s) ==
    IF s = <<>> \/ IsSpace(Head(s)) \/ Head(s) \in {",", "[", "."} THEN <<>>
    ELSE <<Head(s)>> \o IdToken(Tail(s))

\* FormProcessingService.getFieldName: the cache key of a field
getFieldName(field) ==
    LET s == field.selector IN
    IF s.kind \in {"name", "testid", "datatest", "idattr"} /\ s.val # E THEN s.val
    ELSE IF s.kind = "hash" /\ IdToken(s.val) # E THEN IdToken(s.val)
    ELSE generateFieldNameFromLabel(field.label)

(***************************************************************************)
(* The two revisions of FormProcessingService in the repository:           *)
(*   "ts"  src/Domain/Services/FromProcessingService.ts                    *)
(*   "p9"  the revision with displayResponseCache (unnamed/part_009)       *)
(***************************************************************************)
Revisions == {"ts", "p9"}

\* the label element found in the parent of a control
ParentLabel(c) == IF c.wrapLabel # E THEN Trim(c.wrapLabel) ELSE Trim(c.forLabel)

\* detectHiddenFields: the label of a control whose id contains "mantine-"
HiddenLabel(r, c) ==
    IF r = "ts"
    THEN (IF c.aria # E THEN c.aria
          ELSE IF c.placeholder # E THEN c.placeholder
          ELSE ParentLabel(c))
    ELSE ParentLabel(c)

\* detectHiddenFields
RECURSIVE detectHiddenFieldsFrom(_, _, _)
detectHiddenFieldsFrom(r, d, i) ==
    IF i > Len(d) THEN <<>>
    ELSE (IF d[i].id # E /\ Includes(d[i].id, MANTINE) /\ HiddenLabel(r, d[i]) # E
          THEN <<[label    |-> HiddenLabel(r, d[i]),
                  selector |-> Sel("hash", d[i].id),
                  type     |-> "input",
                  required |-> Includes(HiddenLabel(r, d[i]), <<"*">>) \/ d[i].required]>>
          ELSE <<>>)
         \o detectHiddenFieldsFrom(r, d, i + 1)

detectHiddenFields(r, d) == detectHiddenFieldsFrom(r, d, 1)

\* detectAllFormFields: the initial fields, then each hidden field that no
\* field already in the list equals in selector or in label
RECURSIVE AppendHidden(_, _)
AppendHidden(all, hidden) ==
    IF hidden = <<>> THEN all
    ELSE LET h == Head(hidden)
             exists == \E k \in 1..Len(all) :
                          all[k].selector = h.selector \/ all[k].label = h.label
         IN  AppendHidden(IF exists THEN all ELSE Append(all, h), Tail(hidden))

detectAllFormFields(r, d, initialFields) ==
    AppendHidden(initialFields, detectHiddenFields(r, d))

\* ValidationService.getFieldLabel
getFieldLabel(c) ==
    IF c.aria # E THEN c.aria
    ELSE IF c.id # E /\ c.forLabel # E THEN Trim(c.forLabel)
    ELSE IF c.wrapLabel # E THEN Trim(c.wrapLabel)
    ELSE c.placeholder

\* the messages extractFieldInfo synthesizes when the control has no
\* associated message of its own
GenericMessages ==
    {"Please select an option from the dropdown", "Selected option is not valid",
     "This field is required", "Invalid value entered"}

\* ValidationService.extractFieldInfo: the error entry of a flagged control
\* with its current value and its associated error message ("" when the
\* control has none), as a one-element sequence, or the empty sequence (null)
\* when the control has neither a name, an id nor a label
extractFieldInfo(c, currentValue, errorMessage) ==
    LET fieldName  == IF c.name # E THEN c.name ELSE c.id
        fieldLabel == getFieldLabel(c)
        finalErrorMessage ==
            IF errorMessage = "" \/ errorMessage = "Field validation failed"
            THEN IF c.dropdown /\ currentValue = E
                 THEN "Please select an option from the dropdown"
                 ELSE IF c.dropdown THEN "Selected option is not valid"
                 ELSE IF currentValue = E THEN "This field is required"
                 ELSE "Invalid value entered"
            ELSE errorMessage
    IN  IF fieldName # E \/ fieldLabel # E
        THEN <<[fieldName    |-> IF fieldName # E THEN fieldName ELSE fieldLabel,
                fieldLabel   |-> IF fieldLabel # E THEN fieldLabel ELSE fieldName,
                errorMessage |-> finalErrorMessage]>>
        ELSE <<>>

\* removeDuplicateErrors: `${error.fieldName}-${error.fieldLabel}`
DedupKey(error) == error.fieldName \o <<"-">> \o error.fieldLabel

\* ValidationService.removeDuplicateErrors: the first entry of each key
RECURSIVE removeDuplicateErrors(_)
removeDuplicateErrors(errs) ==
    IF errs = <<>> THEN <<>>
    ELSE LET front == removeDuplicateErrors(SubSeq(errs, 1, Len(errs) - 1))
             last  == errs[Len(errs)]
         IN  IF \E k \in 1..Len(front) : DedupKey(front[k]) = DedupKey(last)
             THEN front
             ELSE Append(front, last)

\* detectValidationErrors, the loop over errorSelectors: hits is the sequence
\* of positions of the elements the selectors return, selector by selector
\* (a control that matches two selectors occurs twice); assoc[i] is the
\* message getAssociatedErrorMessage finds for control i
RECURSIVE FlaggedErrors(_, _, _, _)
FlaggedErrors(d, vals, hits, assoc) ==
    IF hits = <<>> THEN <<>>
    ELSE extractFieldInfo(d[Head(hits)], vals[Head(hits)], assoc[Head(hits)])
         \o FlaggedErrors(d, vals, Tail(hits), assoc)

\* findErrorMessages / findAssociatedField: the entry of an error-message
\* element with text m.text that belongs to control m.pos
UNKNOWN == <<"u", "n", "k", "n", "o", "w", "n">>

MessageEntry(d, m) ==
    LET c    == d[m.pos]
        name == IF c.name # E THEN c.name ELSE c.id
        fieldName == IF name # E THEN name ELSE UNKNOWN
    IN  [fieldName  |-> fieldName,
         fieldLabel |-> IF Trim(c.wrapLabel) # E THEN Trim(c.wrapLabel) ELSE fieldName,
         errorMessage |-> m.text]

\* "existingError.errorMessage = errorMsg.message": whether the message of an
\* entry that is already in the list is replaced
ReplacesMessage(existing) == TRUE

\* detectValidationErrors, the loop over findErrorMessages(): the message of
\* the first entry with the same fieldName is overwritten, otherwise a new
\* entry is pushed
RECURSIVE MergeMessages(_, _, _)
MergeMessages(errs, d, msgs) ==
    IF msgs = <<>> THEN errs
    ELSE LET e == MessageEntry(d, Head(msgs))
             same == {k \in 1..Len(errs) : errs[k].fieldName = e.fieldName}
             first == CHOOSE k \in same : \A j \in same : k <= j
         IN  MergeMessages(
                IF same = {} THEN Append(errs, e)
                ELSE IF ReplacesMessage(errs[first])
                THEN [errs EXCEPT ![first].errorMessage = e.errorMessage]
                ELSE errs,
                d, Tail(msgs))

\* ValidationService.checkRequiredFields: one entry for every control that is
\* required (required or aria-required="true") and whose value is blank
RECURSIVE checkRequiredFields(_, _, _)
checkRequiredFields(d, vals, i) ==
    IF i > Len(d) THEN <<>>
    ELSE LET c     == d[i]
             label == IF c.id # E /\ Trim(c.forLabel) # E THEN Trim(c.forLabel)
                      ELSE IF c.aria # E THEN c.aria
                      ELSE IF c.placeholder # E THEN c.placeholder
                      ELSE c.name
             name  == IF c.name # E THEN c.name ELSE c.id
         IN  (IF c.required /\ Trim(vals[i]) = E
              THEN <<[fieldName    |-> name,
                      fieldLabel   |-> IF label # E THEN label ELSE name,
                      errorMessage |-> IF c.dropdown
                                       THEN "Please select an option from the dropdown"
                                       ELSE "This field is required"]>>
              ELSE <<>>)
             \o checkRequiredFields(d, vals, i + 1)

\* detectValidationErrors, the loop over checkRequiredFields(): an entry is
\* pushed unless the list has an entry with the same fieldName
RECURSIVE MergeRequired(_, _)
MergeRequired(errs, reqs) ==
    IF reqs = <<>> THEN errs
    ELSE MergeRequired(
            IF \E k \in 1..Len(errs) : errs[k].fieldName = Head(reqs).fieldName
            THEN errs ELSE Append(errs, Head(reqs)),
            Tail(reqs))

\* ValidationService.detectValidationErrors
detectValidationErrors(d, vals, hits, assoc, msgs) ==
    removeDuplicateErrors(
        MergeRequired(
            MergeMessages(FlaggedErrors(d, vals, hits, assoc), d, msgs),
            checkRequiredFields(d, vals, 1)))

\* the positions of a set of controls in document order
RECURSIVE InOrder(_, _, _)
InOrder(S, i, n) ==
    IF i > n THEN <<>>
    ELSE (IF i \in S THEN <<i>> ELSE <<>>) \o InOrder(S, i + 1, n)

\* findFieldByNameOrLabel: the selectors tried, in order
FindSelectors(r, fieldName, fieldLabel) ==
    IF r = "ts"
    THEN <<Sel("name", fieldName), Sel("hash", fieldName), Sel("idattr", fieldName),
           Sel("testid", fieldName), Sel("datatest", fieldName),
           Sel("datafield", fieldName), Sel("aria", fieldLabel)>>
    ELSE <<Sel("name", fieldName), Sel("hash", fieldName), Sel("idattr", fieldName),
           Sel("testid", fieldName), Sel("aria", fieldLabel)>>

\* the first selector of a list that resolves to a control: <<selector>> or <<>>
RECURSIVE FirstResolving(_, _)
FirstResolving(d, sels) ==
    IF sels = <<>> THEN <<>>
    ELSE IF Query(d, Head(sels)) # 0 THEN <<Head(sels)>>
    ELSE FirstResolving(d, Tail(sels))

\* findElementByLabel: the label elements of the document are the label[for]
\* elements (with a for attribute) and the parent labels (without); only a
\* label with a for attribute whose target exists yields a selector
RECURSIVE findElementByLabelFrom(_, _, _)
findElementByLabelFrom(d, labelText, i) ==
    IF i > Len(d) THEN <<>>
    ELSE IF d[i].id # E /\ d[i].forLabel # E
            /\ Includes(Trim(d[i].forLabel), labelText)
            /\ Query(d, Sel("hash", d[i].id)) # 0
         THEN <<Sel("hash", d[i].id)>>
         ELSE findElementByLabelFrom(d, labelText, i + 1)

findElementByLabel(d, labelText) == findElementByLabelFrom(d, labelText, 1)

\* findFieldByNameOrLabel: <<field>> or <<>> (null)
findFieldByNameOrLabel(r, d, fieldName, fieldLabel) ==
    LET bySel == FirstResolving(d, FindSelectors(r, fieldName, fieldLabel))
        used  == IF bySel # <<>> THEN bySel ELSE findElementByLabel(d, fieldLabel)
    IN  IF used = <<>> THEN <<>>
        ELSE <<[label    |-> fieldLabel,
                selector |-> used[1],
                type     |-> "input",
                required |-> d[Query(d, used[1])].required]>>

\* handleValidationErrorsEnhanced: the hidden field whose label contains, or is
\* contained in, the error's label: <<field>> or <<>>
FindHidden(hiddenFields, err) ==
    LET lbl == IF err.fieldLabel # E THEN err.fieldLabel ELSE err.fieldName
        ok(f) == Includes(f.label, lbl) \/ Includes(lbl, f.label)
    IN  IF \E k \in 1..Len(hiddenFields) : ok(hiddenFields[k])
        THEN <<hiddenFields[CHOOSE k \in 1..Len(hiddenFields) :
                  ok(hiddenFields[k]) /\ \A j \in 1..(k - 1) : ~ok(hiddenFields[j])]>>
        ELSE <<>>

\* isUserCancellation
CancelKeywords ==
    { <<"q", "u", "i", "t">>, <<"e", "x", "i", "t">>,
      <<"c", "a", "n", "c", "e", "l">>, <<"a", "b", "o", "r", "t">>,
      <<"s", "t", "o", "p">> }

isUserCancellation(input) == Trim(ToLowerCase(input)) \in CancelKeywords

\* a non-printable character (outside \x20-\x7E and \u00A0-\uFFFF)
BEL == "\\x07"

\* s.replace(/\s+/g, " ") (which subsumes the preceding /[\r\n]+/g)
RECURSIVE CollapseSpaces(_)
CollapseSpaces(s) ==
    IF s = <<>> THEN <<>>
    ELSE IF IsSpace(Head(s))
         THEN <<" ">> \o CollapseSpaces(TrimStart(s))
         ELSE <<Head(s)>> \o CollapseSpaces(Tail(s))

\* FormUtils.sanitizeInput
sanitizeInput(input) ==
    SelectSeq(CollapseSpaces(Trim(input)), LAMBDA c : c # BEL)

validateFieldInput_Lenient(field, input) == TRUE

\* validateFieldInput for a text control without length constraints
validateFieldInput(field, input) == ~(field.required /\ Trim(input) = E)

(***************************************************************************)
(* Maps (Map<string, string>).                                             *)
(***************************************************************************)
EmptyMap == [k \in {} |-> E]

Has(m, k) == k \in DOMAIN m

Put(m, k, v) == [x \in DOMAIN m \cup {k} |-> IF x = k THEN v ELSE m[x]]

(***************************************************************************)
(* Program constants.                                                      *)
(***************************************************************************)
\* FormProcessingService.maxRetries
maxRetries == 3

\* FormAutomationController.maxRetryAttempts
maxRetryAttempts == 3

\* what the human types at a question of initial collection
CollectAnswers ==
    { <<" ", "Q", "u", "i", "t">>, E, <<" ", "v">> }

\* what the human types at a correction question
CorrectAnswers ==
    { <<"s", "t", "o", "p">>, <<" ">>, <<"w", " ">> }

\* what the human types at a yes/no question
YesNoAnswers ==
    { <<"Y", " ">>, <<"n", "o">> }

\* presentFormSummaryAndConfirm / askUserForRetry: the accepted tokens
YesTokens ==
    { <<"y", "e", "s">>, <<"y">>, <<"t", "r", "u", "e">>, <<"1">> }

IsYes(input) == Trim(ToLowerCase(input)) \in YesTokens

\* the documents of the model: the catalog controls at an increasing choice
\* of at most MaxControls positions
RECURSIVE Pick(_, _)
Pick(S, i) ==
    IF i > Len(Catalog) THEN <<>>
    ELSE (IF i \in S THEN <<Catalog[i]>> ELSE <<>>) \o Pick(S, i + 1)

Documents ==
    { Pick(S, 1) : S \in { T \in SUBSET (1..Len(Catalog)) :
                              Cardinality(T) \in 1..MaxControls } }

(***************************************************************************)
(* Results (FormAutomationResult: success flag and error string).          *)
(***************************************************************************)
NoResult == [success |-> FALSE, error |-> "<pending>"]

\* createSuccessResult(success, duration)
createSuccessResult(success) ==
    IF success
    THEN [success |-> TRUE, error |-> ""]
    ELSE [success |-> FALSE,
          error |-> "Form processing completed but submission status unclear"]

\* FormAutomationController.run, success branch
runSuccessResult == [success |-> TRUE, error |-> ""]

\* createCancelledResult
createCancelledResult == [success |-> FALSE, error |-> "Form automation cancelled by user"]

createErrorResult_NoReason(msg) == [success |-> FALSE, error |-> ""]

\* createErrorResult(error): the message of the error, or the fixed text for a
\* thrown value that is not an Error
createErrorResult(msg) ==
    [success |-> FALSE, error |-> IF msg = "<not an Error>" THEN "Unknown error occurred" ELSE msg]

\* FormAutomationController.run, failure branch
runFailureResult == [success |-> FALSE, error |-> "Form processing failed or was incomplete"]

\* FormAutomationController.run, no fields
runNoFieldsResult == [success |-> FALSE, error |-> "No form fields found on the page"]

\* no operation is exercised on its own
NoCall == [op |-> "none"]

NoRet == [op |-> "none"]

(***************************************************************************)
(* State.                                                                  *)
(***************************************************************************)
VARIABLES
    rev,          \* which revision of FormProcessingService is linked
    entry,        \* "execute" (CLIRunner.run -> controller.execute) or "run"
    dom,          \* the controls of the rendered form
    broken,       \* position of a control that rejects interaction (0: none)
    docValue,     \* the value currently entered in each control
    repoBrowser,  \* PuppeteerFormRepository.browser is open
    repoPage,     \* PuppeteerFormRepository.page is open
    ctlBrowser,   \* FormAutomationController.browser (run) is open
    ctlPage,      \* FormAutomationController.page (run) is open
    uiOpen,       \* the answer channel (ConsoleUserInterface) is open
    pc,           \* position of the single thread of control
    fields,       \* the fields handed to the service
    allFields,    \* the fields asked about in collection
    responses,    \* userResponses of the current service call
    cache,        \* userResponseCache
    idx,          \* loop index over fields or errors
    attempt,      \* attempt of the submit loop
    errors,       \* validationErrors of the current attempt
    ctlAttempt,   \* attempt of processFormWithRetries
    svcResult,    \* boolean returned by processFormWithValidation[Enhanced]
    result,       \* FormAutomationResult of the top-level run
    act,          \* operations performed by the last step
    exitKind,     \* how the current service call ended
    cancelSeen,   \* a cancellation sentinel was read in this top-level run
    submits,      \* submit actions in the current run of the submit loop
    rounds,       \* correction rounds in the current run of the submit loop
    allRejected,  \* every attempt of the current run of the submit loop ended
                  \* not submitted with a non-empty error list
    passes,       \* collection passes completed on this service instance
    askedInPass,  \* a question was asked in the current collection pass
    cacheAtPass,  \* the cache when the current collection pass began
    call,         \* the operation exercised on its own, with its inputs
    ret           \* what that operation has produced so far

vars ==
    <<rev, entry, dom, broken, docValue, repoBrowser, repoPage, ctlBrowser, ctlPage,
      uiOpen, pc, fields, allFields, responses, cache, idx, attempt, errors,
      ctlAttempt, svcResult, result, act, exitKind, cancelSeen, submits,
      rounds, allRejected, passes, askedInPass, cacheAtPass, call, ret>>

envVars == <<rev, entry, dom, broken, call, ret>>
resVars == <<repoBrowser, repoPage, ctlBrowser, ctlPage, uiOpen>>
svcVars == <<fields, allFields, responses, cache, idx, attempt, errors, svcResult>>
loopGhost == <<submits, rounds, allRejected>>
passGhost == <<passes, askedInPass, cacheAtPass>>

\* processFormWithValidationEnhanced is what runs: always in revision p9
\* (processFormWithValidation delegates to it) and for FormAutomationController.run
Enhanced == rev = "p9" \/ entry = "run"

Init ==
    /\ rev \in Revisions
    /\ entry \in {"execute", "run"}
    /\ dom \in Documents
    /\ broken \in {0, 1}
    /\ docValue = [i \in 1..Len(dom) |-> E]
    /\ repoBrowser = FALSE /\ repoPage = FALSE
    /\ ctlBrowser = FALSE /\ ctlPage = FALSE
    /\ uiOpen = TRUE
    /\ pc = "start"
    /\ fields = <<>> /\ allFields = <<>>
    /\ responses = EmptyMap /\ cache = EmptyMap
    /\ idx = 0 /\ attempt = 0 /\ errors = <<>>
    /\ ctlAttempt = 0
    /\ svcResult = FALSE
    /\ result = NoResult
    /\ act = {}
    /\ exitKind = "none"
    /\ cancelSeen = FALSE
    /\ submits = 0 /\ rounds = 0 /\ allRejected = FALSE
    /\ passes = 0 /\ askedInPass = FALSE /\ cacheAtPass = EmptyMap
    /\ call = NoCall /\ ret = NoRet

(***************************************************************************)
(* Helpers of the service.                                                 *)
(***************************************************************************)
\* generateSelectorsByLabel, the exact-match selectors: aria-label, then for
\* each spelling of the label (joined, snake, kebab) the name and the id
RemoveSpaces(s) == SelectSeq(s, LAMBDA c : ~IsSpace(c))

RECURSIVE SpacesTo(_, _)
SpacesTo(s, ch) ==
    IF s = <<>> THEN <<>>
    ELSE IF IsSpace(Head(s))
         THEN <<ch>> \o SpacesTo(TrimStart(s), ch)
         ELSE <<Head(s)>> \o SpacesTo(Tail(s), ch)

\* label.replace(/\s*\*\s*$/, "").trim()
CleanLabel(label) ==
    LET t == TrimEnd(label)
    IN  Trim(IF t # <<>> /\ t[Len(t)] = "*" THEN SubSeq(t, 1, Len(t) - 1) ELSE label)

generateSelectorsByLabel(label) ==
    LET c  == CleanLabel(label)
        n1 == RemoveSpaces(ToLowerCase(c))
        n2 == SpacesTo(ToLowerCase(c), "_")
        n3 == SpacesTo(ToLowerCase(c), "-")
    IN  <<Sel("aria", c),
          Sel("name", n1), Sel("hash", n1),
          Sel("name", n2), Sel("hash", n2),
          Sel("name", n3), Sel("hash", n3)>>

\* verifyAndUpdateSelectors: a field whose selector no longer resolves gets
\* the first working label-derived selector, if there is one
verifyField(d, f) ==
    IF Query(d, f.selector) # 0 THEN f
    ELSE LET w == FirstResolving(d, generateSelectorsByLabel(f.label))
         IN  IF w # <<>> THEN [f EXCEPT !.selector = w[1]] ELSE f

verifyAndUpdateSelectors(d, fs) == [k \in 1..Len(fs) |-> verifyField(d, fs[k])]

\* the fields asked about: detectAllFormFields(verifyAndUpdateSelectors(fields))
CollectList(r, d, fs) == detectAllFormFields(r, d, verifyAndUpdateSelectors(d, fs))

\* the fields filled before the first submit: revision p9 fills allFields,
\* revision ts fills verifiedFields
FillList(r, d, fs) ==
    IF r = "p9" THEN CollectList(r, d, fs) ELSE verifyAndUpdateSelectors(d, fs)

\* fillField / fillFieldEnhanced: the control the value goes to (0: none),
\* by the primary selector, then by the label-derived selectors
ResolveElement(d, f) ==
    IF Query(d, f.selector) # 0 THEN Query(d, f.selector)
    ELSE LET w == FirstResolving(d, generateSelectorsByLabel(f.label))
         IN  IF w # <<>> THEN Query(d, w[1]) ELSE 0

\* the boolean returned when the submit loop finds the form not submitted and
\* the detector returns no error: false in revision ts ("submission status is
\* unclear"), true in revision p9 ("Form appears to have been submitted")
ZeroErrorsResult(r) == r = "p9"

\* handleValidationErrors[Enhanced]: the field a correction is applied to
CorrectionTarget(r, d, enh, err) ==
    LET found == findFieldByNameOrLabel(r, d, err.fieldName, err.fieldLabel)
    IN  IF found # <<>> THEN found
        ELSE IF enh THEN FindHidden(detectHiddenFields(r, d), err)
        ELSE <<>>

\* submitWith[Enhanced]ValidationHandling: "if (attempt < this.maxRetries)",
\* the test that admits a correction round after a rejected attempt
MoreAttempts_Off(a) == a <= maxRetries

MoreAttempts(a) == a < maxRetries

\* collectInitialResponses: "if (this.userResponseCache.has(fieldName))"
isCached_Never(fieldName) == FALSE

isCached(fieldName) == Has(cache, fieldName)

\* "for (const field of formFields)" / "for (const error of
\* validationErrors)": the element the loop turns to when one is finished
NextIndex_Skip(i) == i + 2

NextIndex(i) == i + 1

\* the catch block of fillField / fillFieldEnhanced: revision ts logs the
\* error ("this.logError(...)"), revision p9 has an empty block "catch (error) {}"
FillFailureReport(r) == IF r = "ts" THEN {"log"} ELSE {}

\* processFormWithRetries, in the catch block: "if (attempt <
\* this.maxRetryAttempts)", the test that admits the retry question
AsksRetry_Always(a) == TRUE

AsksRetry(a) == a < maxRetryAttempts

\* submitWith[Enhanced]ValidationHandling, in the catch block of the loop:
\* "if (attempt >= this.maxRetries) return false"
ThrowEnds_Never(a) == FALSE

ThrowEnds(a) == a >= maxRetries

\* the service call returns res
Finish(res, kind) ==
    /\ svcResult' = res
    /\ exitKind' = kind
    /\ pc' = "svc_return"

\* the locals of a finished service call are dead once the caller has the
\* result: userResponses, validationErrors, the loop counters
LocalsDie ==
    /\ allFields' = <<>>
    /\ responses' = EmptyMap
    /\ errors' = <<>>
    /\ idx' = 0
    /\ attempt' = 0
    /\ submits' = 0
    /\ rounds' = 0
    /\ allRejected' = FALSE
    /\ askedInPass' = FALSE
    /\ cacheAtPass' = EmptyMap

(***************************************************************************)
(* FormAutomationController.execute, under CLIRunner.run.                  *)
(***************************************************************************)
\* extractAndAnalyzeForm / ExtractFormFieldsUseCase.execute
ExtractForm ==
    /\ pc = "start" /\ entry = "execute"
    /\ \E o \in {"launchFail", "navFail", "ok"} :
          /\ repoBrowser' = (o # "launchFail")
          /\ repoPage' = (o # "launchFail")
          /\ IF o = "ok" /\ extractFormFields(dom) # <<>>
             THEN /\ fields' = extractFormFields(dom)
                  /\ result' = result
                  /\ pc' = "confirm"
             ELSE /\ fields' = fields
                  /\ result' = createErrorResult("Form extraction failed: <cause>")
                  /\ pc' = "cli_finally"
    /\ act' = {"open"}
    /\ UNCHANGED <<envVars, docValue, ctlBrowser, ctlPage, uiOpen, allFields,
                   responses, cache, idx, attempt, errors, svcResult, ctlAttempt,
                   exitKind, cancelSeen, loopGhost, passGhost>>

\* presentFormSummaryAndConfirm and the two branches of execute after it
Confirm ==
    /\ pc = "confirm"
    /\ \E a \in YesNoAnswers :
          IF IsYes(a)
          THEN /\ pc' = "ctl_loop"
               /\ UNCHANGED <<repoPage, result>>
          ELSE /\ repoPage' = FALSE
               /\ result' = createCancelledResult
               /\ pc' = "cli_finally"
    /\ act' = {"ask"}
    /\ UNCHANGED <<envVars, docValue, repoBrowser, ctlBrowser, ctlPage, uiOpen,
                   svcVars, ctlAttempt, exitKind, cancelSeen, loopGhost, passGhost>>

\* processFormWithRetries: the head of the while loop
CtlAttempt ==
    /\ pc = "ctl_loop"
    /\ ctlAttempt < maxRetryAttempts
    /\ ctlAttempt' = ctlAttempt + 1
    /\ pc' = "svc_start"
    /\ act' = {}
    /\ UNCHANGED <<envVars, docValue, resVars, svcVars, result, exitKind,
                   cancelSeen, loopGhost, passGhost>>

\* processFormWithRetries after the service call returned, and the tail of
\* execute: a true result closes the page and yields createSuccessResult; a
\* false one is thrown as an Error, which is caught and either leads to the
\* retry question or leaves the loop and is thrown to execute's catch
CtlAfterService ==
    /\ pc = "svc_return" /\ entry = "execute"
    /\ IF svcResult
       THEN /\ repoPage' = FALSE
            /\ result' = createSuccessResult(svcResult)
            /\ pc' = "cli_finally"
       ELSE /\ repoPage' = repoPage
            /\ IF AsksRetry(ctlAttempt)
               THEN /\ pc' = "ask_retry"
                    /\ result' = result
               ELSE /\ pc' = "cli_finally"
                    /\ result' = createErrorResult("Form processing failed without specific error")
    /\ act' = {}
    /\ LocalsDie
    /\ UNCHANGED <<envVars, docValue, repoBrowser, ctlBrowser, ctlPage, uiOpen,
                   fields, cache, svcResult, ctlAttempt, exitKind, cancelSeen,
                   passes>>

\* askUserForRetry
AskRetry ==
    /\ pc = "ask_retry"
    /\ \E a \in YesNoAnswers :
          IF IsYes(a)
          THEN /\ pc' = "ctl_loop"
               /\ result' = result
          ELSE /\ pc' = "cli_finally"
               /\ result' = createErrorResult("Form processing failed without specific error")
    /\ act' = {"ask"}
    /\ UNCHANGED <<envVars, docValue, resVars, svcVars, ctlAttempt, exitKind,
                   cancelSeen, loopGhost, passGhost>>

\* CLIRunner.run: finally { userInterface.close() }
CliFinally ==
    /\ pc = "cli_finally"
    /\ uiOpen' = FALSE
    /\ pc' = "done"
    /\ act' = {}
    /\ UNCHANGED <<envVars, docValue, repoBrowser, repoPage, ctlBrowser, ctlPage,
                   svcVars, ctlAttempt, result, exitKind, cancelSeen, loopGhost,
                   passGhost>>

(***************************************************************************)
(* FormAutomationController.run (the controller that owns its browser).    *)
(***************************************************************************)
\* run up to the call of processFormWithValidationEnhanced
RunInit ==
    /\ pc = "start" /\ entry = "run"
    /\ \E o \in {"launchFail", "gotoFail", "repoInitFail", "repoNavFail", "ok"} :
          /\ ctlBrowser' = (o # "launchFail")
          /\ ctlPage' = (o # "launchFail")
          /\ repoBrowser' = (o \in {"repoNavFail", "ok"})
          /\ repoPage' = (o \in {"repoNavFail", "ok"})
          /\ IF o = "ok"
             THEN IF extractFormFields(dom) = <<>>
                  THEN /\ result' = runNoFieldsResult
                       /\ fields' = fields
                       /\ pc' = "run_finally"
                  ELSE /\ result' = result
                       /\ fields' = extractFormFields(dom)
                       /\ pc' = "svc_start"
             ELSE /\ result' = createErrorResult("<driver error>")
                  /\ fields' = fields
                  /\ pc' = "run_finally"
    /\ act' = {"open"}
    /\ UNCHANGED <<envVars, docValue, uiOpen, allFields, responses, cache, idx,
                   attempt, errors, svcResult, ctlAttempt, exitKind, cancelSeen,
                   loopGhost, passGhost>>

\* run after the service call returned
RunAfterService ==
    /\ pc = "svc_return" /\ entry = "run"
    /\ result' = IF svcResult THEN runSuccessResult ELSE runFailureResult
    /\ pc' = "run_finally"
    /\ act' = {}
    /\ LocalsDie
    /\ UNCHANGED <<envVars, docValue, resVars, fields, cache, svcResult,
                   ctlAttempt, exitKind, cancelSeen, passes>>

\* run: finally { cleanup() }
RunCleanup ==
    /\ pc = "run_finally"
    /\ ctlPage' = FALSE
    /\ ctlBrowser' = FALSE
    /\ uiOpen' = FALSE
    /\ pc' = "done"
    /\ act' = {}
    /\ UNCHANGED <<envVars, docValue, repoBrowser, repoPage, svcVars, ctlAttempt,
                   result, exitKind, cancelSeen, loopGhost, passGhost>>

(***************************************************************************)
(* FormProcessingService.processFormWithValidation[Enhanced].              *)
(***************************************************************************)
\* verifyAndUpdateSelectors, detectAllFormFields and the entry of
\* collectInitialResponses
SvcStart ==
    /\ pc = "svc_start"
    /\ allFields' = CollectList(rev, dom, fields)
    /\ responses' = EmptyMap
    /\ idx' = 1
    /\ exitKind' = "none"
    /\ askedInPass' = FALSE
    /\ cacheAtPass' = cache
    /\ pc' = "collect"
    /\ act' = {}
    /\ UNCHANGED <<envVars, docValue, resVars, fields, cache, attempt, errors,
                   svcResult, ctlAttempt, result, cancelSeen, loopGhost, passes>>

\* collectInitialResponses, a field whose key is in the cache
CollectCached ==
    /\ pc = "collect" /\ idx <= Len(allFields)
    /\ LET fieldName == getFieldName(allFields[idx]) IN
          /\ isCached(fieldName)
          /\ responses' = Put(responses, fieldName, cache[fieldName])
    /\ idx' = NextIndex(idx)
    /\ act' = {}
    /\ UNCHANGED <<envVars, docValue, resVars, fields, allFields, cache, attempt,
                   errors, svcResult, ctlAttempt, result, exitKind, cancelSeen,
                   pc, loopGhost, passGhost>>

\* collectInitialResponses, one question and its answer: a sentinel throws
\* "User cancelled" (caught by processFormWithValidation[Enhanced], which
\* returns false), an invalid answer asks again, a valid one is stored
CollectPrompt ==
    /\ pc = "collect" /\ idx <= Len(allFields)
    /\ LET field     == allFields[idx]
           fieldName == getFieldName(field)
       IN  /\ ~isCached(fieldName)
           /\ \E a \in CollectAnswers :
                 IF isUserCancellation(a)
                 THEN /\ cancelSeen' = TRUE
                      /\ Finish(FALSE, "cancelled")
                      /\ UNCHANGED <<responses, cache, idx>>
                 ELSE IF ~validateFieldInput(field, sanitizeInput(a))
                 THEN UNCHANGED <<responses, cache, idx, cancelSeen, svcResult,
                                  exitKind, pc>>
                 ELSE /\ responses' = Put(responses, fieldName, sanitizeInput(a))
                      /\ cache' = Put(cache, fieldName, sanitizeInput(a))
                      /\ idx' = NextIndex(idx)
                      /\ UNCHANGED <<cancelSeen, svcResult, exitKind, pc>>
    /\ askedInPass' = TRUE
    /\ act' = {"prompt"}
    /\ UNCHANGED <<envVars, docValue, resVars, fields, allFields, attempt, errors,
                   ctlAttempt, result, loopGhost, passes, cacheAtPass>>

\* collectInitialResponses returns
CollectDone ==
    /\ pc = "collect" /\ idx > Len(allFields)
    /\ passes' = passes + 1
    /\ askedInPass' = FALSE
    /\ cacheAtPass' = EmptyMap
    /\ idx' = 1
    /\ pc' = "fill"
    /\ act' = {}
    /\ UNCHANGED <<envVars, docValue, resVars, fields, allFields, responses, cache,
                   attempt, errors, svcResult, ctlAttempt, result, exitKind,
                   cancelSeen, loopGhost>>

\* fillFormFields[Enhanced], one field: a field without a (non-empty) response
\* is passed over; otherwise the value is applied to the resolved control.
\* A failed fill is swallowed by fillFieldEnhanced and rethrown by fillField
\* (revision ts, processFormWithValidation), which ends the call with false
FillStep ==
    /\ pc = "fill" /\ idx <= Len(FillList(rev, dom, fields))
    /\ LET field     == FillList(rev, dom, fields)[idx]
           fieldName == getFieldName(field)
           value     == IF Has(responses, fieldName) THEN responses[fieldName] ELSE E
           target    == ResolveElement(dom, field)
       IN  IF value = E
           THEN /\ idx' = NextIndex(idx)
                /\ act' = {}
                /\ UNCHANGED <<docValue, svcResult, exitKind, pc>>
           ELSE IF target # 0 /\ target # broken
                THEN /\ act' = {"fill"}
                     /\ docValue' = [docValue EXCEPT ![target] = value]
                     /\ idx' = NextIndex(idx)
                     /\ UNCHANGED <<svcResult, exitKind, pc>>
                ELSE /\ act' = {"fill"} \cup FillFailureReport(rev)
                     /\ IF Enhanced
                        THEN /\ idx' = NextIndex(idx)
                             /\ UNCHANGED <<docValue, svcResult, exitKind, pc>>
                        ELSE /\ Finish(FALSE, "thrown")
                             /\ UNCHANGED <<docValue, idx>>
    /\ UNCHANGED <<envVars, resVars, fields, allFields, responses, cache, attempt,
                   errors, ctlAttempt, result, cancelSeen, loopGhost, passGhost>>

\* fillFormFields[Enhanced] returns; submitWith[Enhanced]ValidationHandling begins
FillDone ==
    /\ pc = "fill" /\ idx > Len(FillList(rev, dom, fields))
    /\ attempt' = 0
    /\ submits' = 0
    /\ rounds' = 0
    /\ allRejected' = TRUE
    /\ errors' = <<>>
    /\ pc' = "submit"
    /\ act' = {}
    /\ UNCHANGED <<envVars, docValue, resVars, fields, allFields, responses, cache,
                   idx, svcResult, ctlAttempt, result, exitKind, cancelSeen,
                   passGhost>>

\* one iteration of the submit loop up to the correction round: submitForm,
\* waitForSubmissionResult, detectValidationErrors and the branches on them.
\* The site decides the outcome: an exception, acceptance, or rejection with
\* a set of flagged controls (possibly none)
SubmitAttempt ==
    /\ pc = "submit" /\ attempt < maxRetries
    /\ attempt' = attempt + 1
    /\ submits' = submits + 1
    /\ act' = {"submit"}
    /\ \/ \* submitForm or the outcome detection throws
          /\ IF ThrowEnds(attempt + 1)
             THEN Finish(FALSE, "thrown")
             ELSE UNCHANGED <<svcResult, exitKind, pc>>
          /\ allRejected' = FALSE
          /\ UNCHANGED <<errors, idx, rounds>>
       \/ \* isFormSubmitted() is true
          /\ Finish(TRUE, "submitted")
          /\ allRejected' = FALSE
          /\ UNCHANGED <<errors, idx, rounds>>
       \/ \* isFormSubmitted() is false
          \E flagged \in SUBSET (1..Len(dom)) :
             LET validationErrors ==
                    detectValidationErrors(dom, docValue,
                        InOrder(flagged, 1, Len(dom)),
                        [i \in 1..Len(dom) |-> ""], <<>>) IN
             /\ errors' = validationErrors
             /\ IF validationErrors = <<>>
                THEN /\ Finish(ZeroErrorsResult(rev), "ambiguous")
                     /\ allRejected' = FALSE
                     /\ UNCHANGED <<idx, rounds>>
                ELSE IF MoreAttempts(attempt + 1)
                THEN /\ idx' = 1
                     /\ rounds' = rounds + 1
                     /\ pc' = "correct"
                     /\ UNCHANGED <<svcResult, exitKind, allRejected>>
                ELSE /\ Finish(FALSE, "exhausted")
                     /\ UNCHANGED <<idx, rounds, allRejected>>
    /\ UNCHANGED <<envVars, docValue, resVars, fields, allFields, responses, cache,
                   ctlAttempt, result, cancelSeen, passGhost>>

\* handleValidationErrors[Enhanced], one error: the correction question and
\* its answer; a sentinel returns false, an empty answer skips the error,
\* otherwise the target field is looked up, filled and its cache entry written
CorrectStep ==
    /\ pc = "correct" /\ idx <= Len(errors)
    /\ \E a \in CorrectAnswers :
          LET err    == errors[idx]
              value  == sanitizeInput(a)
              fld    == CorrectionTarget(rev, dom, Enhanced, err)
              target == IF fld = <<>> THEN 0 ELSE ResolveElement(dom, fld[1])
          IN  IF isUserCancellation(a)
              THEN /\ cancelSeen' = TRUE
                   /\ Finish(FALSE, "cancelled")
                   /\ act' = {"prompt"}
                   /\ UNCHANGED <<docValue, cache, responses, idx>>
              ELSE IF Trim(a) = E \/ fld = <<>>
              THEN /\ idx' = NextIndex(idx)
                   /\ act' = {"prompt"}
                   /\ UNCHANGED <<docValue, cache, responses, cancelSeen,
                                  svcResult, exitKind, pc>>
              ELSE /\ docValue' = IF target # 0 /\ target # broken
                                  THEN [docValue EXCEPT ![target] = value]
                                  ELSE docValue
                   /\ cache' = Put(cache, getFieldName(fld[1]), value)
                   /\ responses' = IF Enhanced
                                   THEN Put(responses, getFieldName(fld[1]), value)
                                   ELSE responses
                   /\ idx' = NextIndex(idx)
                   /\ act' = {"prompt", "fill"}
                   /\ UNCHANGED <<cancelSeen, svcResult, exitKind, pc>>
    /\ UNCHANGED <<envVars, resVars, fields, allFields, attempt, errors,
                   ctlAttempt, result, loopGhost, passGhost>>

\* handleValidationErrors[Enhanced] returns true: back to the head of the loop
CorrectDone ==
    /\ pc = "correct" /\ idx > Len(errors)
    /\ pc' = "submit"
    /\ act' = {}
    /\ UNCHANGED <<envVars, docValue, resVars, svcVars, ctlAttempt, result,
                   exitKind, cancelSeen, loopGhost, passGhost>>

Next ==
    \/ ExtractForm
    \/ Confirm
    \/ CtlAttempt
    \/ CtlAfterService
    \/ AskRetry
    \/ CliFinally
    \/ RunInit
    \/ RunAfterService
    \/ RunCleanup
    \/ SvcStart
    \/ CollectCached
    \/ CollectPrompt
    \/ CollectDone
    \/ FillStep
    \/ FillDone
    \/ SubmitAttempt
    \/ CorrectStep
    \/ CorrectDone

Spec == Init /\ [][Next]_vars

TypeOK ==
    /\ pc \in {"start", "confirm", "ctl_loop", "ask_retry", "cli_finally",
               "run_finally", "svc_start", "collect", "fill", "submit",
               "correct", "svc_return", "done"}
    /\ attempt \in 0..maxRetries
    /\ ctlAttempt \in 0..maxRetryAttempts
    /\ submits \in 0..maxRetries
    /\ rounds \in 0..maxRetries
    /\ passes \in 0..maxRetryAttempts
    /\ act \subseteq {"open", "ask", "prompt", "fill", "submit", "log"}

(***************************************************************************)
(* The operations of ValidationService and FormProcessingService exercised *)
(* one at a time on a document the site has put in some state: call holds  *)
(* the operation and its inputs, ret what it has produced.  The controller *)
(* does not run.                                                           *)
(***************************************************************************)
\* the controller and the service as constructed, no run started
Idle ==
    /\ rev = "p9" /\ entry = "execute" /\ broken = 0
    /\ repoBrowser = FALSE /\ repoPage = FALSE
    /\ ctlBrowser = FALSE /\ ctlPage = FALSE
    /\ uiOpen = TRUE
    /\ pc = "start"
    /\ fields = <<>> /\ allFields = <<>>
    /\ responses = EmptyMap /\ cache = EmptyMap
    /\ idx = 0 /\ attempt = 0 /\ errors = <<>>
    /\ ctlAttempt = 0
    /\ svcResult = FALSE
    /\ result = NoResult
    /\ act = {}
    /\ exitKind = "none"
    /\ cancelSeen = FALSE
    /\ submits = 0 /\ rounds = 0 /\ allRejected = FALSE
    /\ passes = 0 /\ askedInPass = FALSE /\ cacheAtPass = EmptyMap

idleVars ==
    <<rev, entry, broken, repoBrowser, repoPage, ctlBrowser, ctlPage, uiOpen, pc,
      fields, allFields, responses, cache, idx, attempt, errors, ctlAttempt,
      svcResult, result, act, exitKind, cancelSeen, submits, rounds,
      allRejected, passes, askedInPass, cacheAtPass>>

\* the controls the documents of a detection pass are built from
DetectCatalog ==
    << \* <input name="a-b" aria-label="c">
       Control(<<"a", "-", "b">>, E, E, <<"c">>, E, E, E, FALSE),
       \* <input name="a" aria-label="b-c">
       Control(<<"a">>, E, E, <<"b", "-", "c">>, E, E, E, FALSE),
       \* <div role="textbox" aria-label="P" aria-required="true">
       Control(E, E, E, <<"P">>, E, E, E, TRUE),
       \* <div role="textbox" aria-label="Q" aria-required="true">
       Control(E, E, E, <<"Q">>, E, E, E, TRUE),
       \* <label>Em <input name="em" required></label>
       Control(<<"e", "m">>, E, E, E, E, <<"E", "m">>, E, TRUE) >>

RECURSIVE PickDetect(_, _)
PickDetect(S, i) ==
    IF i > Len(DetectCatalog) THEN <<>>
    ELSE (IF i \in S THEN <<DetectCatalog[i]>> ELSE <<>>) \o PickDetect(S, i + 1)

DetectDocuments ==
    { PickDetect(S, 1) : S \in { T \in SUBSET (1..Len(DetectCatalog)) :
                                    Cardinality(T) \in 1..MaxDetect } }

SeqsUpTo(S, n) == UNION { [1..k -> S] : k \in 0..n }

\* the state of the page at a detection pass: the elements the error
\* selectors return, the message associated with each control, and at most
\* one separate error-message element
DetectCalls(d) ==
    { [op |-> "detect", hits |-> h, assoc |-> a, msgs |-> m] :
         h \in SeqsUpTo(1..Len(d), MaxDetect),
         a \in [1..Len(d) -> {"", "Enter a valid value"}],
         m \in {<<>>} \cup { <<[pos |-> i, text |-> "Oops"]>> : i \in 1..Len(d) } }

InitDetect ==
    /\ dom \in DetectDocuments
    /\ docValue \in [1..Len(dom) -> {E, <<"v">>}]
    /\ call \in DetectCalls(dom)

\* detectValidationErrors()
Detect ==
    /\ call.op = "detect" /\ ret = NoRet
    /\ ret' = [op |-> "detect",
               errors |-> detectValidationErrors(dom, docValue, call.hits,
                                                 call.assoc, call.msgs)]
    /\ UNCHANGED <<idleVars, dom, docValue, call>>

\* the URLs of the page after a submit
Urls ==
    { <<"/", "f">>,
      <<"/", "s", "u", "c", "c", "e", "s", "s">>,
      <<"/", "t", "h", "a", "n", "k", "s">>,
      <<"/", "s", "u", "b", "m", "i", "t", "t", "e", "d">> }

SuccessTokens ==
    { <<"s", "u", "c", "c", "e", "s", "s">>, <<"t", "h", "a", "n", "k">>,
      <<"s", "u", "b", "m", "i", "t", "t", "e", "d">> }

isFormSubmitted_FormIgnored(indicator, url, errs, formRemains, throwsAt) ==
    IF throwsAt = "indicators" THEN FALSE
    ELSE IF indicator THEN TRUE
    ELSE IF \E t \in SuccessTokens : Includes(url, t) THEN TRUE
    ELSE IF throwsAt = "forms" THEN FALSE
    ELSE errs = <<>>

\* ValidationService.isFormSubmitted: indicator says whether a success
\* indicator element is on the page, formRemains whether a form element is,
\* errs is what detectValidationErrors() returns, throwsAt names the page
\* query that throws (the catch returns false)
isFormSubmitted(indicator, url, errs, formRemains, throwsAt) ==
    IF throwsAt = "indicators" THEN FALSE
    ELSE IF indicator THEN TRUE
    ELSE IF \E t \in SuccessTokens : Includes(url, t) THEN TRUE
    ELSE IF throwsAt = "forms" THEN FALSE
    ELSE errs = <<>> /\ ~formRemains

\* the state of the page when isFormSubmitted looks at it
SubmittedCalls(d) ==
    { [op |-> "submitted", indicator |-> i, url |-> u, formRemains |-> f,
       throwsAt |-> t, hits |-> InOrder(h, 1, Len(d)),
       assoc |-> [k \in 1..Len(d) |-> ""], msgs |-> <<>>] :
         i \in BOOLEAN, u \in Urls, f \in BOOLEAN,
         t \in {"none", "indicators", "forms"}, h \in SUBSET (1..Len(d)) }

InitSubmitted ==
    /\ dom \in DetectDocuments
    /\ docValue \in [1..Len(dom) -> {E, <<"v">>}]
    /\ call \in SubmittedCalls(dom)

\* isFormSubmitted()
Submitted ==
    /\ call.op = "submitted" /\ ret = NoRet
    /\ ret' = [op |-> "submitted",
               value |-> isFormSubmitted(call.indicator, call.url,
                            detectValidationErrors(dom, docValue, call.hits,
                                                   call.assoc, call.msgs),
                            call.formRemains, call.throwsAt)]
    /\ UNCHANGED <<idleVars, dom, docValue, call>>

\* waitForSubmissionResult: the waits handed to Promise.race
RaceWaits_Four == {"navigation", "success", "error", "idle"}

RaceWaits == {"navigation", "success", "error"}

\* waitForSubmissionResult: isFormSubmitted() is called in the try after the
\* race resolved and in the catch after it rejected
CallsIsFormSubmitted_OnlyResolved(outcome) == outcome # "timeout"

CallsIsFormSubmitted(outcome) == TRUE

\* the page after a submit: which wait of the race settles first (or a
\* timeout rejects the race) and what isFormSubmitted will see
WaitCalls(d) ==
    { [op |-> "wait", first |-> w, indicator |-> i, url |-> u,
       formRemains |-> f, throwsAt |-> t, hits |-> InOrder(h, 1, Len(d)),
       assoc |-> [k \in 1..Len(d) |-> ""], msgs |-> <<>>] :
         w \in RaceWaits \cup {"timeout"},
         i \in BOOLEAN, u \in Urls, f \in BOOLEAN,
         t \in {"none", "indicators", "forms"}, h \in SUBSET (1..Len(d)) }

InitWait ==
    /\ dom = <<DetectCatalog[5]>>
    /\ docValue \in [1..Len(dom) -> {E, <<"v">>}]
    /\ call \in WaitCalls(dom)

\* waitForSubmissionResult starts the three waits and awaits the race
StartRace ==
    /\ call.op = "wait" /\ ret = NoRet
    /\ ret' = [op |-> "wait", phase |-> "race", pending |-> RaceWaits,
               busy |-> {}, calls |-> 0, value |-> FALSE]
    /\ UNCHANGED <<idleVars, dom, docValue, call>>

\* the race settles: one wait resolves, or the first timeout rejects it; the
\* other waits stay pending; isFormSubmitted() is called
RaceSettles ==
    /\ ret.op = "wait" /\ ret.phase = "race"
    /\ \E w \in ret.pending :
          /\ call.first \in RaceWaits => w = call.first
          /\ IF CallsIsFormSubmitted(call.first)
             THEN ret' = [ret EXCEPT !.pending = @ \ {w}, !.phase = "check",
                                     !.busy = @ \cup {"isFormSubmitted"},
                                     !.calls = @ + 1]
             ELSE ret' = [ret EXCEPT !.pending = @ \ {w}, !.phase = "returned"]
    /\ UNCHANGED <<idleVars, dom, docValue, call>>

\* a wait that lost the race resolves or times out; nobody awaits it
LoserSettles ==
    /\ ret.op = "wait" /\ ret.phase \in {"check", "returned"}
    /\ \E w \in ret.pending : ret' = [ret EXCEPT !.pending = @ \ {w}]
    /\ UNCHANGED <<idleVars, dom, docValue, call>>

\* isFormSubmitted() returns and waitForSubmissionResult returns its value
CheckReturns ==
    /\ ret.op = "wait" /\ ret.phase = "check"
    /\ ret' = [ret EXCEPT
                 !.value = isFormSubmitted(call.indicator, call.url,
                              detectValidationErrors(dom, docValue, call.hits,
                                                     call.assoc, call.msgs),
                              call.formRemains, call.throwsAt),
                 !.busy = @ \ {"isFormSubmitted"},
                 !.phase = "returned"]
    /\ UNCHANGED <<idleVars, dom, docValue, call>>

\* parseInt(s): leading white space, an optional sign, then the longest run
\* of decimal digits; <<n>> for a number, <<>> for NaN
DigitValue(c) ==
    CASE c = "0" -> 0 [] c = "1" -> 1 [] c = "2" -> 2 [] c = "3" -> 3
      [] c = "4" -> 4 [] c = "5" -> 5 [] c = "6" -> 6 [] c = "7" -> 7
      [] c = "8" -> 8 [] OTHER -> 9

RECURSIVE DigitRun(_, _, _)
DigitRun(s, acc, any) ==
    IF s # <<>> /\ Head(s) \in Digits
    THEN DigitRun(Tail(s), 10 * acc + DigitValue(Head(s)), TRUE)
    ELSE IF any THEN <<acc>> ELSE <<>>

parseInt(s) ==
    LET t == TrimStart(s)
    IN  IF t # <<>> /\ Head(t) = "-"
        THEN LET r == DigitRun(Tail(t), 0, FALSE)
             IN  IF r = <<>> THEN <<>> ELSE <<0 - r[1]>>
        ELSE IF t # <<>> /\ Head(t) = "+" THEN DigitRun(Tail(t), 0, FALSE)
        ELSE DigitRun(t, 0, FALSE)

\* "option.toLowerCase().includes(answer.toLowerCase()) ||
\*  answer.toLowerCase().includes(option.toLowerCase())"
OptionMatches_AnswerInOption(option, answer) ==
    Includes(ToLowerCase(option), ToLowerCase(answer))

OptionMatches(option, answer) ==
    \/ Includes(ToLowerCase(option), ToLowerCase(answer))
    \/ Includes(ToLowerCase(answer), ToLowerCase(option))

\* options.find(...): the first matching option as <<option>>, or <<>>
RECURSIVE FindOption(_, _)
FindOption(options, answer) ==
    IF options = <<>> THEN <<>>
    ELSE IF OptionMatches(Head(options), answer) THEN <<Head(options)>>
    ELSE FindOption(Tail(options), answer)

\* FormProcessingService.validateDropdownAnswer
validateDropdownAnswer(answer, options, required) ==
    IF required /\ Trim(answer) = E
    THEN [isValid |-> FALSE,
          message |-> <<"This field is required. Please select an option.">>]
    ELSE IF Trim(answer) = E THEN [isValid |-> TRUE, message |-> <<>>]
    ELSE LET numAnswer == parseInt(Trim(answer))
         IN  IF numAnswer # <<>> /\ numAnswer[1] >= 1 /\ numAnswer[1] <= Len(options)
             THEN [isValid |-> TRUE, message |-> <<>>]
             ELSE IF FindOption(options, answer) # <<>>
             THEN [isValid |-> TRUE, message |-> <<>>]
             ELSE [isValid |-> FALSE,
                   message |-> <<"Please select from the available options or enter a number 1-",
                                 Len(options), ".">>]

\* collectInitialResponses, the answer stored for a field with options once
\* the answer has passed validateDropdownAnswer
ResolveOption(answer, options) ==
    LET numAnswer == parseInt(answer)
    IN  IF numAnswer # <<>> /\ numAnswer[1] >= 1 /\ numAnswer[1] <= Len(options)
        THEN options[numAnswer[1]]
        ELSE IF FindOption(options, answer) # <<>>
        THEN FindOption(options, answer)[1]
        ELSE answer

\* the options of the dropdown and the answers typed at its question
OptionLists ==
    { << <<"R", "e", "d">>, <<"G", "r", "e", "e", "n">>, <<"B", "l", "u", "e">> >> }

OptionAnswers ==
    { <<"2">>, <<"b", "l", "u">>, <<"P", "u", "r", "p", "l", "e">>,
      <<"R", "e", "d", "d", "i", "s", "h">>, <<"0">>, <<"4">>, <<" ", "3", " ">>,
      E, <<"G", "R", "E", "E", "N">>, <<"r", "e">>, <<"2", "n", "d">>,
      <<"-", "1">> }

InitOption ==
    /\ dom = <<>> /\ docValue = <<>>
    /\ call \in { [op |-> "option", answer |-> a, options |-> o, required |-> r] :
                     a \in OptionAnswers, o \in OptionLists, r \in BOOLEAN }

\* collectInitialResponses, one answer to the question of a field with
\* options: sanitizeInput, validateDropdownAnswer, and the value that is
\* stored when the answer is valid
AnswerOption ==
    /\ call.op = "option" /\ ret = NoRet
    /\ LET answer     == sanitizeInput(call.answer)
           validation == validateDropdownAnswer(answer, call.options, call.required)
       IN  ret' = [op |-> "option", isValid |-> validation.isValid,
                   message |-> validation.message,
                   stored |-> IF validation.isValid
                              THEN <<ResolveOption(answer, call.options)>>
                              ELSE <<>>]
    /\ UNCHANGED <<idleVars, dom, docValue, call>>

\* fillCheckboxRadioField / fillFieldByType: the tokens that ask for a
\* checked control
TruthyTokens ==
    { <<"t", "r", "u", "e">>, <<"y", "e", "s">>, <<"1">>, <<"o", "n">>,
      <<"c", "h", "e", "c", "k", "e", "d">> }

ShouldCheck(value) == ToLowerCase(value) \in TruthyTokens

\* whether filling a checkbox or radio control clicks it: revision ts calls
\* fillCheckboxRadioField for both types; in revision p9 the case "checkbox"
\* of fillFieldByType falls through to case "select", fillDropdownField,
\* which clicks the element
ClicksControl(r, type, isChecked, value) ==
    IF r = "p9" /\ type = "checkbox" THEN TRUE
    ELSE ShouldCheck(value) # isChecked

\* the checked state of the control after a click
Clicked(type, isChecked) == IF type = "checkbox" THEN ~isChecked ELSE TRUE

InitCheck ==
    /\ dom = <<>> /\ docValue = <<>>
    /\ call \in { [op |-> "check", rev |-> r, type |-> t, value |-> v, checked |-> c] :
                     r \in Revisions, t \in {"checkbox", "radio"},
                     v \in {<<"y", "e", "s">>, <<"T", "R", "U", "E">>, <<"o", "n">>},
                     c \in BOOLEAN }

\* one fill of the checkbox or radio control with call.value; two in a row
FillCheckable ==
    /\ call.op = "check"
    /\ IF ret = NoRet
       THEN LET click == ClicksControl(call.rev, call.type, call.checked, call.value)
            IN  ret' = [op |-> "check", clicks |-> <<click>>,
                        checked |-> IF click THEN Clicked(call.type, call.checked)
                                    ELSE call.checked]
       ELSE /\ Len(ret.clicks) < 2
            /\ LET click == ClicksControl(call.rev, call.type, ret.checked, call.value)
               IN  ret' = [ret EXCEPT !.clicks = Append(@, click),
                                      !.checked = IF click THEN Clicked(call.type, @)
                                                  ELSE @]
    /\ UNCHANGED <<idleVars, dom, docValue, call>>

\* fillFieldEnhanced, the branch taken on the state read from the resolved
\* element.  Revision p9: "if (disabled || readonly) return", then
\* "if (isDropdown || field.type === 'select') fillDropdownField else
\* fillFieldByType".  Revision ts: "if (isMantineSelect || readonly)
\* fillDropdownField, else if (disabled) return, else fillFieldByType"
fillFieldEnhancedBranch(r, st) ==
    IF r = "p9"
    THEN IF st.disabled \/ st.readonly THEN "skip"
         ELSE IF st.isDropdown THEN "fillDropdownField"
         ELSE "fillFieldByType"
    ELSE IF st.isDropdown \/ st.readonly THEN "fillDropdownField"
         ELSE IF st.disabled THEN "skip"
         ELSE "fillFieldByType"

\* what a branch does to the element: fillDropdownField begins with
\* "await element.click()"; fillFieldByType (an input) clicks, types and
\* dispatches events; the skip only logs
Interactions(branch) ==
    CASE branch = "fillDropdownField" -> {"click"}
      [] branch = "fillFieldByType"   -> {"click", "type", "dispatch"}
      [] OTHER                        -> {}

InitFillElement ==
    /\ dom = <<>> /\ docValue = <<>>
    /\ call \in { [op |-> "fillElement", rev |-> r,
                   st |-> [disabled |-> d, readonly |-> ro, isDropdown |-> dd]] :
                     r \in Revisions, d \in BOOLEAN, ro \in BOOLEAN, dd \in BOOLEAN }

\* fillFieldEnhanced from the point where the element is resolved
FillElement ==
    /\ call.op = "fillElement" /\ ret = NoRet
    /\ LET branch == fillFieldEnhancedBranch(call.rev, call.st)
       IN  ret' = [op |-> "fillElement", branch |-> branch,
                   interactions |-> Interactions(branch), threw |-> FALSE]
    /\ UNCHANGED <<idleVars, dom, docValue, call>>

(***************************************************************************)
(* OpenAIRepository.generateQuestion / generateCorrectionQuestion and the  *)
(* question the service puts to the user.                                  *)
(***************************************************************************)
\* OpenAIRepository.maxRetries and retryDelay (milliseconds)
OpenAI_maxRetries == 3

retryDelay == 1000

\* what one call of openai.chat.completions.create can do: throw, or answer
\* with a content that is absent, blank, or a text
ApiOutcomes ==
    { [throws |-> TRUE,  content |-> E],
      [throws |-> FALSE, content |-> E],
      [throws |-> FALSE, content |-> <<" ">>],
      [throws |-> FALSE, content |-> <<"Q", "?", " ">>] }

\* "const question = response.choices[0]?.message?.content?.trim();
\*  if (question) return {question, success: true}"
AttemptSucceeds(o) == ~o.throws /\ Trim(o.content) # E

\* generateFallbackQuestion
generateFallbackQuestion(labelText) ==
    <<"Please provide your ">> \o ToLowerCase(labelText) \o <<":">>

\* generateFallbackCorrectionQuestion
generateFallbackCorrectionQuestion(validationError) ==
    LET fieldLabel == validationError.fieldLabel
        msg        == ToLowerCase(validationError.errorMessage)
    IN  IF Includes(msg, <<"r", "e", "q", "u", "i", "r", "e", "d">>)
        THEN <<"The ">> \o fieldLabel
                \o <<" field is required. Could you please provide this information?">>
        ELSE IF Includes(msg, <<"e", "m", "a", "i", "l">>)
        THEN <<"There seems to be an issue with the email format. Could you please provide your email address again?">>
        ELSE IF \/ Includes(msg, <<"f", "o", "r", "m", "a", "t">>)
                \/ Includes(msg, <<"i", "n", "v", "a", "l", "i", "d">>)
        THEN <<"The ">> \o fieldLabel
                \o <<" format doesn't seem quite right. Could you please try entering it again?">>
        ELSE <<"I noticed there might be an issue with \"">> \o fieldLabel
                \o <<"\". Could you please provide this information again?">>

\* "if (attempt < this.maxRetries) await this.delay(this.retryDelay * attempt)"
DelaysAfter_Always(n) == TRUE

DelaysAfter(n) == n < OpenAI_maxRetries

\* String.prototype.replace with a string pattern: the first occurrence only
RECURSIVE RemoveFirst(_, _)
RemoveFirst(s, ch) ==
    IF s = <<>> THEN <<>>
    ELSE IF Head(s) = ch THEN Tail(s)
    ELSE <<Head(s)>> \o RemoveFirst(Tail(s), ch)

\* generateRegularQuestion, the question used when the response has
\* success = false
RegularTemplate(r, label) ==
    IF r = "p9"
    THEN <<"Please provide your ">> \o Trim(RemoveFirst(ToLowerCase(label), "*"))
    ELSE <<"Please provide your ">> \o ToLowerCase(label) \o <<":">>

\* handleValidationErrors[Enhanced], the question used when the response has
\* success = false
CorrectionTemplate(r, error) ==
    LET shown == IF error.fieldLabel # E THEN error.fieldLabel ELSE error.fieldName
    IN  IF r = "p9"
        THEN <<"Please provide a value for \"">> \o shown \o <<"\"">>
        ELSE <<"Please provide a corrected value for \"">> \o shown
                \o <<"\" (Error: ">> \o error.errorMessage \o <<"):">>

\* "aiResponse.success ? aiResponse.question : <template>"
QuestionSource_ProviderOnly(response) == "provider"

QuestionSource(response) == IF response.success THEN "provider" ELSE "template"

Pending == [success |-> FALSE, question |-> E, settled |-> FALSE]

QuestionSubjects ==
    { [kind |-> "collect", fieldLabel |-> <<"E", "m", " ", "*">>, fieldName |-> <<"e", "m">>,
       errorMessage |-> E],
      [kind |-> "collect", fieldLabel |-> <<"*">>, fieldName |-> E, errorMessage |-> E],
      [kind |-> "correct", fieldLabel |-> <<"E", "m">>, fieldName |-> <<"e", "m">>,
       errorMessage |-> <<"R", "e", "q", "u", "i", "r", "e", "d">>],
      [kind |-> "correct", fieldLabel |-> E, fieldName |-> E,
       errorMessage |-> <<"b", "a", "d">>] }

InitQuestion ==
    /\ dom = <<>> /\ docValue = <<>>
    /\ call \in { [op |-> "question", rev |-> r, subject |-> q, api |-> a] :
                     r \in Revisions, q \in QuestionSubjects,
                     a \in [1..OpenAI_maxRetries -> ApiOutcomes] }

\* one iteration of the for loop of generateQuestion /
\* generateCorrectionQuestion: the call, the return on a usable content,
\* otherwise the log, the delay before the next attempt, and after the last
\* attempt the return of the fallback question with success = false
ProviderAttempt ==
    /\ call.op = "question"
    /\ \/ ret = NoRet
       \/ ret # NoRet /\ ~ret.response.settled /\ ret.calls < OpenAI_maxRetries
    /\ LET before  == IF ret = NoRet
                      THEN [op |-> "question", calls |-> 0, delays |-> <<>>,
                            response |-> Pending, rejected |-> FALSE, asked |-> <<>>]
                      ELSE ret
           n       == before.calls + 1
           o       == call.api[n]
           waited  == IF DelaysAfter(n)
                      THEN Append(before.delays, retryDelay * n)
                      ELSE before.delays
           fallback == IF call.subject.kind = "collect"
                       THEN generateFallbackQuestion(call.subject.fieldLabel)
                       ELSE generateFallbackCorrectionQuestion(call.subject)
       IN  ret' = IF AttemptSucceeds(o)
                  THEN [before EXCEPT !.calls = n,
                                      !.response = [success |-> TRUE,
                                                    question |-> Trim(o.content),
                                                    settled |-> TRUE]]
                  ELSE IF n < OpenAI_maxRetries
                  THEN [before EXCEPT !.calls = n, !.delays = waited]
                  ELSE [before EXCEPT !.calls = n, !.delays = waited,
                                      !.response = [success |-> FALSE,
                                                    question |-> fallback,
                                                    settled |-> TRUE]]
    /\ UNCHANGED <<idleVars, dom, docValue, call>>

\* generateRegularQuestion / handleValidationErrors[Enhanced] after the
\* response arrived: the question is chosen and put to the user
AskQuestion ==
    /\ call.op = "question" /\ ret # NoRet
    /\ ret.response.settled /\ ret.asked = <<>>
    /\ LET source == QuestionSource(ret.response)
           text   == IF source = "provider" THEN ret.response.question
                     ELSE IF call.subject.kind = "collect"
                     THEN RegularTemplate(call.rev, call.subject.fieldLabel)
                     ELSE CorrectionTemplate(call.rev, call.subject)
       IN  ret' = [ret EXCEPT !.asked = <<[source |-> source, text |-> text]>>]
    /\ UNCHANGED <<idleVars, dom, docValue, call>>

\* the answers sanitizeInput is applied to: letters, white space and a
\* control character
InitSanitize ==
    /\ dom = <<>> /\ docValue = <<>>
    /\ call \in { [op |-> "sanitize", input |-> s] :
                     s \in SeqsUpTo({"a", " ", "\n", BEL}, MaxInput) }

\* FormUtils.sanitizeInput applied to the answer, then to its own result
Sanitize ==
    /\ call.op = "sanitize" /\ ret = NoRet
    /\ ret' = [op |-> "sanitize", once |-> sanitizeInput(call.input),
               twice |-> sanitizeInput(sanitizeInput(call.input))]
    /\ UNCHANGED <<idleVars, dom, docValue, call>>

InitFn ==
    /\ Idle
    /\ ret = NoRet
    /\ \/ InitDetect
       \/ InitSubmitted
       \/ InitWait
       \/ InitOption
       \/ InitCheck
       \/ InitFillElement
       \/ InitQuestion
       \/ InitSanitize

NextFn ==
    \/ Detect
    \/ Submitted
    \/ StartRace
    \/ RaceSettles
    \/ LoserSettles
    \/ CheckReturns
    \/ AnswerOption
    \/ FillCheckable
    \/ FillElement
    \/ ProviderAttempt
    \/ AskQuestion
    \/ Sanitize

SpecFn == InitFn /\ [][NextFn]_vars

(***************************************************************************)
(* Properties.                                                             *)
(***************************************************************************)
\* C1 as stated: the submit loop submits at most 3 times with at most 2
\* correction rounds, and whenever every attempt ended not submitted with a
\* non-empty error list it returns after exactly 3 submits and 2 rounds with
\* failure, asking no correction question after the 3rd submit
C1_AsStated ==
    /\ submits <= 3 /\ rounds <= 2
    /\ pc = "correct" => submits < 3
    /\ (pc = "svc_return" /\ allRejected)
          => (submits = 3 /\ rounds = 2 /\ svcResult = FALSE)

\* C1 amended: the bounds hold always; exactly 3 submits and 2 rounds and a
\* failure result follow when every attempt ended not submitted with a
\* non-empty error list and no correction round was cancelled by a sentinel
C1_RetryBound ==
    /\ submits <= 3 /\ rounds <= 2
    /\ pc = "correct" => submits < 3
    /\ (pc = "svc_return" /\ allRejected /\ exitKind # "cancelled")
          => (submits = 3 /\ rounds = 2 /\ svcResult = FALSE
              /\ exitKind = "exhausted")

\* C1 witness: the loop returned after three rejected attempts
C1_Witness ==
    /\ pc = "svc_return" /\ exitKind = "exhausted" /\ allRejected
    /\ submits = 3 /\ rounds = 2 /\ svcResult = FALSE

\* C2: an attempt that is not submitted and has no detected error ends the
\* loop with a failure result, in either revision
C2_AmbiguousFails ==
    (pc = "svc_return" /\ exitKind = "ambiguous") => svcResult = FALSE

\* C3: once a cancellation sentinel was read, no step of the top-level run
\* asks a field or correction question, fills a control or submits
C3_NothingAfterCancel ==
    [][cancelSeen => act' \cap {"prompt", "fill", "submit"} = {}]_vars

\* C4: the result of a run that ended on a cancellation sentinel differs from
\* the success result and from the result of every ordinary failure
C4_CancelDistinct ==
    (pc = "done" /\ exitKind = "cancelled")
       => result \notin {createSuccessResult(TRUE), runSuccessResult,
                         createErrorResult("Form processing failed without specific error"),
                         runFailureResult}

\* C5: when the top-level run has ended, every page and browser that was
\* opened and the answer channel are closed
C5_AllReleased ==
    pc = "done" => /\ ~repoBrowser /\ ~repoPage
                   /\ ~ctlBrowser /\ ~ctlPage
                   /\ ~uiOpen

\* C6: the outcome of a run that ended by retry exhaustion carries the
\* non-empty list of validation errors of the last submit attempt
C6_ExhaustedCarriesErrors ==
    (pc = "done" /\ exitKind = "exhausted")
       => /\ "validationErrors" \in DOMAIN result
          /\ result.validationErrors # <<>>

C8_CachedNeverAsked ==
    /\ []((pc = "collect" /\ passes >= 1) => (~askedInPass /\ cache = cacheAtPass))
    /\ [][(/\ pc = "collect" /\ idx <= Len(allFields)
           /\ Has(cache, getFieldName(allFields[idx])))
             => (/\ "prompt" \notin act'
                 /\ cache' = cache
                 /\ responses' = Put(responses, getFieldName(allFields[idx]),
                                     cache[getFieldName(allFields[idx])]))]_vars

\* C8 witness: a second collection pass reached its end without a question
C8_Witness ==
    /\ pc = "collect" /\ passes >= 1 /\ Len(allFields) > 0
    /\ idx > Len(allFields) /\ ~askedInPass /\ cache = cacheAtPass

\* C9: a correction that was accepted is stored under the key the control's
\* answer got in the initial collection, so the cache has one entry for it
C9_SameKey ==
    (pc = "correct" /\ act = {"prompt", "fill"})
       => LET fld == CorrectionTarget(rev, dom, Enhanced, errors[idx - 1])[1]
              p   == ResolveElement(dom, fld)
          IN  \A i \in 1..Len(allFields) :
                 (p # 0 /\ ResolveElement(dom, allFields[i]) = p)
                    => getFieldName(allFields[i]) = getFieldName(fld)

\* C10: getFieldName gives distinct fields of one run distinct keys
C10_Injective ==
    pc = "collect"
       => \A i, j \in 1..Len(allFields) :
             i # j => getFieldName(allFields[i]) # getFieldName(allFields[j])

\* C11 as stated: isFormSubmitted returns true exactly when a success
\* indicator is present, or the URL contains success, thank or submitted, or
\* the detector returns no error and no form element remains
C11_AsStated ==
    ret.op = "submitted" =>
       (ret.value <=>
          \/ call.indicator
          \/ \E t \in SuccessTokens : Includes(call.url, t)
          \/ /\ detectValidationErrors(dom, docValue, call.hits, call.assoc,
                                       call.msgs) = <<>>
             /\ ~call.formRemains)

\* C11 amended: the equivalence holds when no page query throws; a true
\* result is always backed by one of the three conditions, and a query for
\* the success indicators that throws gives false whatever the page shows
C11_SubmittedExactly ==
    ret.op = "submitted" =>
       LET holds == \/ call.indicator
                    \/ \E t \in SuccessTokens : Includes(call.url, t)
                    \/ /\ detectValidationErrors(dom, docValue, call.hits,
                                                 call.assoc, call.msgs) = <<>>
                       /\ ~call.formRemains
       IN  /\ call.throwsAt = "none" => (ret.value <=> holds)
           /\ ret.value => holds
           /\ call.throwsAt = "indicators" => ~ret.value

\* C11 witness: a success indicator is present while the detector reports
\* an error and the form remains, and the result is true
C11_Witness ==
    /\ ret.op = "submitted" /\ call.throwsAt = "none"
    /\ call.indicator /\ call.formRemains
    /\ detectValidationErrors(dom, docValue, call.hits, call.assoc, call.msgs) # <<>>
    /\ ret.value = TRUE

\* C12: isFormSubmitted() is called exactly once per outcome observation,
\* after the race has settled by a wait that resolved or by a timeout, and
\* the value waitForSubmissionResult returns is the value of that call
C12_OneCheckAfterRace ==
    ret.op = "wait" =>
       /\ ret.phase = "race" => ret.calls = 0
       /\ ret.phase = "check" => ret.calls = 1
       /\ ret.phase = "returned" =>
             /\ ret.calls = 1
             /\ ret.value = isFormSubmitted(call.indicator, call.url,
                                detectValidationErrors(dom, docValue, call.hits,
                                                       call.assoc, call.msgs),
                                call.formRemains, call.throwsAt)

\* C12 witness: the race timed out and the result is the true value of the
\* one call of isFormSubmitted()
C12_Witness ==
    /\ ret.op = "wait" /\ ret.phase = "returned" /\ call.first = "timeout"
    /\ ret.calls = 1 /\ ret.value = TRUE

C13_ListOrder ==
    [][/\ (pc = "collect" /\ pc' = "collect")
             => /\ allFields' = allFields
                /\ idx' \in {idx, idx + 1}
                /\ \A k \in DOMAIN cache' :
                      k # getFieldName(allFields[idx])
                         => (k \in DOMAIN cache /\ cache'[k] = cache[k])
       /\ (pc = "fill" /\ pc' = "fill")
             => /\ idx' = idx + 1
                /\ \A i \in 1..Len(dom) :
                      i # ResolveElement(dom, FillList(rev, dom, fields)[idx])
                         => docValue'[i] = docValue[i]
       /\ (pc = "correct" /\ pc' = "correct")
             => /\ errors' = errors
                /\ idx' = idx + 1
                /\ LET fld == CorrectionTarget(rev, dom, Enhanced, errors[idx])
                   IN  /\ \A i \in 1..Len(dom) :
                             (fld = <<>> \/ i # ResolveElement(dom, fld[1]))
                                => docValue'[i] = docValue[i]
                       /\ \A k \in DOMAIN cache' :
                             (fld = <<>> \/ k # getFieldName(fld[1]))
                                => (k \in DOMAIN cache /\ cache'[k] = cache[k])
      ]_vars

\* C13 witness: a correction round has handled its two errors in turn
C13_Witness ==
    /\ pc = "correct" /\ Len(errors) = 2 /\ idx = 3
    /\ act = {"prompt", "fill"}

\* C15: a question of the initial collection either is asked again for the
\* same field with cache and document untouched, or ends the collection by
\* a cancellation, or stores an answer that is valid for the field and moves
\* to the next field; it never fills a control
C15_RepromptUntilValid ==
    [][(pc = "collect" /\ "prompt" \in act')
          => LET field == allFields[idx]
                 key   == getFieldName(field)
             IN  /\ docValue' = docValue
                 /\ "fill" \notin act'
                 /\ allFields' = allFields
                 /\ \/ /\ pc' = "collect" /\ idx' = idx /\ cache' = cache
                    \/ /\ pc' = "svc_return" /\ exitKind' = "cancelled"
                       /\ cancelSeen' /\ idx' = idx /\ cache' = cache
                    \/ /\ pc' = "collect" /\ idx' = idx + 1
                       /\ key \in DOMAIN cache'
                       /\ cache' = Put(cache, key, cache'[key])
                       /\ field.required => Trim(cache'[key]) # E
      ]_vars

\* C15 witness: the first field was asked, nothing was stored, and the
\* collection is still at the first field
C15_Witness ==
    /\ pc = "collect" /\ idx = 1 /\ askedInPass /\ act = {"prompt"}
    /\ allFields[1].required /\ cache = cacheAtPass

C17_DedupByPair ==
    ret.op = "detect" =>
       LET found == MergeRequired(
                       MergeMessages(FlaggedErrors(dom, docValue, call.hits, call.assoc),
                                     dom, call.msgs),
                       checkRequiredFields(dom, docValue, 1))
           out == ret.errors
           Pair(e) == <<e.fieldName, e.fieldLabel>>
       IN  /\ \A i, j \in 1..Len(out) : i # j => Pair(out[i]) # Pair(out[j])
           /\ \A k \in 1..Len(found) :
                 (\A j \in 1..(k - 1) : Pair(found[j]) # Pair(found[k]))
                    => \E i \in 1..Len(out) : out[i] = found[k]

\* C18: an entry that got a specific (not synthesized) message when its
\* control was found has that same message in the returned list
C18_SpecificMessageKept ==
    ret.op = "detect" =>
       LET first == FlaggedErrors(dom, docValue, call.hits, call.assoc)
       IN  \A k \in 1..Len(first) :
              (/\ first[k].errorMessage \notin GenericMessages
               /\ \A j \in 1..(k - 1) : DedupKey(first[j]) # DedupKey(first[k]))
                 => \A i \in 1..Len(ret.errors) :
                       DedupKey(ret.errors[i]) = DedupKey(first[k])
                          => ret.errors[i].errorMessage = first[k].errorMessage

\* C19: every control that is required and blank at detection time has an
\* entry in the returned list, flagged by the site or not
C19_RequiredEmptyReported ==
    ret.op = "detect" =>
       \A i \in 1..Len(dom) :
          (dom[i].required /\ Trim(docValue[i]) = E)
             => LET own == checkRequiredFields(<<dom[i]>>, <<docValue[i]>>, 1)
                           \o extractFieldInfo(dom[i], docValue[i], "")
                IN  \E k \in 1..Len(ret.errors) : \E n \in 1..Len(own) :
                       /\ ret.errors[k].fieldName = own[n].fieldName
                       /\ ret.errors[k].fieldLabel = own[n].fieldLabel

\* C20: of two fills in a row of a checkbox or radio control with the same
\* truthy token the first clicks exactly when the control was unchecked, the
\* second does not click, and the control is checked after each
C20_CheckIdempotent ==
    ret.op = "check" =>
       /\ ret.clicks[1] = ~call.checked
       /\ Len(ret.clicks) = 2 => ret.clicks[2] = FALSE
       /\ ret.checked = TRUE

\* C21: a failed fill of one field (no element resolved, or the interaction
\* failed) leaves the fill loop running at the next field and is reported
C21_FillFailureIsolated ==
    [][(pc = "fill" /\ "fill" \in act'
          /\ LET target == ResolveElement(dom, FillList(rev, dom, fields)[idx])
             IN  target = 0 \/ target = broken)
          => /\ pc' = "fill" /\ idx' = idx + 1
             /\ "log" \in act'
      ]_vars

\* C22: the fill of a field whose resolved element is disabled or read-only
\* returns without error and performs no interaction on the element
C22_NonFillableUntouched ==
    (ret.op = "fillElement" /\ (call.st.disabled \/ call.st.readonly))
       => /\ ~ret.threw
          /\ ret.interactions = {}

\* C23: once the question provider has answered, with or without success,
\* the field or error is asked about with exactly one question, which is the
\* provider's when it succeeded and the service's template when it failed;
\* the question is never empty and nothing is thrown
C23_TemplateOnProviderFailure ==
    (ret.op = "question" /\ ret.asked # <<>>)
       => /\ Len(ret.asked) = 1
          /\ ~ret.rejected
          /\ ret.asked[1].text # E
          /\ ret.asked[1].source = IF ret.response.success THEN "provider" ELSE "template"
          /\ ret.response.success => ret.asked[1].text = ret.response.question
          /\ ~ret.response.success
                => /\ Head(ret.asked[1].text)
                        \in {"Please provide your ", "Please provide a value for \"",
                             "Please provide a corrected value for \""}
                   /\ \E n \in 1..3 : ~AttemptSucceeds(call.api[n])

\* C23 witness: a correction question was asked from the template after the
\* provider threw three times
C23_Witness ==
    /\ ret.op = "question" /\ call.subject.kind = "correct"
    /\ \A n \in 1..3 : call.api[n].throws
    /\ ret.asked # <<>> /\ ret.asked[1].source = "template"

\* C24 as stated: the provider is called at most 3 times per request and not
\* again after the first call that yields a non-empty content; the delay
\* after failed attempt 1 is 1000 ms and after failed attempt 2 is 2000 ms,
\* with none after attempt 3; after 3 failures the request resolves with
\* success = false and a non-empty fallback question
C24_AsStated ==
    ret.op = "question"
       => LET usable(o) == ~o.throws /\ o.content # E
              failed    == IF ret.response.settled /\ ret.response.success
                           THEN ret.calls - 1 ELSE ret.calls
          IN  /\ ret.calls \in 1..3
              /\ ~ret.rejected
              /\ \A k \in 1..failed : ~usable(call.api[k])
              /\ ret.response.settled
                    => IF ret.response.success
                       THEN usable(call.api[ret.calls])
                       ELSE ret.calls = 3 /\ ret.response.question # E
              /\ ~ret.response.settled => ret.calls < 3
              /\ ret.delays = CASE failed = 0 -> <<>>
                                [] failed = 1 -> <<1000>>
                                [] OTHER      -> <<1000, 2000>>

\* C24 amended: the same, where the call that ends the attempts is the first
\* one whose content is non-empty after trimming (a content of white space
\* only counts as a failed attempt)
C24_RetryAndBackoff ==
    ret.op = "question"
       => LET usable(o) == ~o.throws /\ Trim(o.content) # E
              failed    == IF ret.response.settled /\ ret.response.success
                           THEN ret.calls - 1 ELSE ret.calls
          IN  /\ ret.calls \in 1..3
              /\ ~ret.rejected
              /\ \A k \in 1..failed : ~usable(call.api[k])
              /\ ret.response.settled
                    => IF ret.response.success
                       THEN usable(call.api[ret.calls])
                       ELSE ret.calls = 3 /\ ret.response.question # E
              /\ ~ret.response.settled => ret.calls < 3
              /\ ret.delays = CASE failed = 0 -> <<>>
                                [] failed = 1 -> <<1000>>
                                [] OTHER      -> <<1000, 2000>>

\* C24 witness: two failed calls, one of them a blank content, then a call
\* with a text: three calls, delays of 1000 and 2000 ms, success
C24_Witness ==
    /\ ret.op = "question" /\ ret.response.settled /\ ret.response.success
    /\ ret.calls = 3 /\ ret.delays = <<1000, 2000>>
    /\ call.api[1].throws /\ call.api[2] = [throws |-> FALSE, content |-> <<" ">>]

\* C25: every discovered field has a non-empty label and a selector, and
\* every control of the document is emitted as a field: none is left out
\* because no label could be inferred for it
C25_EveryControlEmitted ==
    fields # <<>>
       => /\ \A k \in 1..Len(fields) :
                fields[k].label # E /\ fields[k].selector.val # E
          /\ Len(fields) = Len(dom)

\* C26: processFormWithRetries starts form processing at most 3 times, each
\* time from the head of its loop; the retry question is asked only after a
\* failed attempt that is the first or the second, a refusal ends the run
\* with the error and an acceptance leads to the next attempt; the loop ends
\* with true after a successful attempt and with a thrown error (a failure
\* result with a reason) otherwise; the cache is kept over all of this, and
\* a question of a collection is only for a field whose key is not cached
C26_BoundedRetriesCacheKept ==
    [][entry = "execute"
          => /\ (pc' = "svc_start" /\ pc # "svc_start")
                   => /\ pc = "ctl_loop"
                      /\ ctlAttempt' = ctlAttempt + 1 /\ ctlAttempt' <= 3
                      /\ cache' = cache
             /\ (pc' = "ask_retry" /\ pc # "ask_retry")
                   => pc = "svc_return" /\ ~svcResult /\ ctlAttempt \in {1, 2}
             /\ pc = "ask_retry"
                   => /\ act' = {"ask"} /\ cache' = cache /\ ctlAttempt' = ctlAttempt
                      /\ \/ pc' = "ctl_loop"
                         \/ /\ pc' = "cli_finally"
                            /\ ~result'.success /\ result'.error # ""
             /\ pc = "svc_return"
                   => /\ cache' = cache
                      /\ IF svcResult
                         THEN pc' = "cli_finally" /\ result'.success
                         ELSE \/ pc' = "ask_retry"
                              \/ /\ ctlAttempt = 3 /\ pc' = "cli_finally"
                                 /\ ~result'.success /\ result'.error # ""
             /\ (pc \in {"ctl_loop", "svc_return"}) => "ask" \notin act'
             /\ (pc = "collect" /\ "prompt" \in act')
                   => ~Has(cache, getFieldName(allFields[idx]))
      ]_vars

\* C26 witness: the third attempt's collection reached its end without a
\* question, every field being answered from the cache
C26_Witness ==
    /\ entry = "execute" /\ ctlAttempt = 3
    /\ pc = "collect" /\ Len(allFields) > 0 /\ idx > Len(allFields)
    /\ ~askedInPass /\ cache # EmptyMap

\* C27: every iteration of the submit loop begins with the attempt counter
\* below 3, raises it by one and submits; an iteration that throws before the
\* 3rd goes back to the head of the loop with no correction made (cache and
\* document as they were), and the 3rd iteration always ends the call; a
\* correction round leaves the counter alone and each of its steps moves to
\* the next error, ends the round or ends the call.  So the loop runs at
\* most 3 iterations and ends
C27_LoopBounded ==
    [][/\ pc = "submit"
             => /\ attempt < 3 /\ attempt' = attempt + 1
                /\ act' = {"submit"} /\ submits' = submits + 1
                /\ pc' \in {"submit", "correct", "svc_return"}
                /\ attempt' = 3 => pc' = "svc_return"
                /\ pc' = "submit"
                      => /\ attempt' < 3
                         /\ cache' = cache /\ docValue' = docValue
                         /\ rounds' = rounds
                /\ pc' = "correct" => idx' = 1 /\ errors' # <<>>
       /\ pc = "correct"
             => /\ attempt' = attempt /\ submits' = submits
                /\ \/ pc' = "correct" /\ idx <= Len(errors) /\ idx' = idx + 1
                   \/ pc' = "submit" /\ idx > Len(errors)
                   \/ pc' = "svc_return" /\ ~svcResult'
      ]_vars

\* C27 witness: the submit action threw in attempts 1 and 2, the loop went
\* on each time, and the throw of attempt 3 ended the call with failure
C27_Witness ==
    /\ pc = "svc_return" /\ exitKind = "thrown" /\ ~svcResult
    /\ attempt = 3 /\ submits = 3 /\ rounds = 0

\* C28: a step of a correction round that applies no fill (the answer was
\* blank, or no field was resolved for the error) leaves cache and document
\* as they were and moves to the next error; and a step that changes the
\* cache has put that very value into the control of the resolved field
C28_CacheFollowsRefill ==
    [][(pc = "correct" /\ pc' = "correct")
          => LET fld == CorrectionTarget(rev, dom, Enhanced, errors[idx])
             IN  /\ (fld = <<>> \/ "fill" \notin act')
                       => /\ cache' = cache /\ docValue' = docValue
                          /\ idx' = idx + 1
                 /\ cache' # cache
                       => /\ fld # <<>>
                          /\ ResolveElement(dom, fld[1]) # 0
                          /\ docValue'[ResolveElement(dom, fld[1])]
                                = cache'[getFieldName(fld[1])]
      ]_vars

\* C29: sanitizeInput applied to its own result changes nothing, and its
\* result has no white space at either end, no two white-space characters in
\* a row and no control character
C29_SanitizeIdempotent ==
    ret.op = "sanitize"
       => /\ ret.twice = ret.once
          /\ Trim(ret.once) = ret.once
          /\ \A i \in 1..(Len(ret.once) - 1) :
                ~(IsSpace(ret.once[i]) /\ IsSpace(ret.once[i + 1]))
          /\ \A i \in 1..Len(ret.once) : ret.once[i] # BEL

\* C30: a blank answer to the question of a non-required field with options
\* is accepted and stored as the empty string, which the fill loop passes
\* over ("if (value)"); and a stored value that is not empty is one of the
\* field's options
C30_BlankChoosesNothing ==
    (ret.op = "option" /\ ret.isValid)
       => /\ (~call.required /\ sanitizeInput(call.answer) = E) => ret.stored = <<E>>
          /\ ret.stored[1] # E
                => \E i \in 1..Len(call.options) : ret.stored[1] = call.options[i]

====
